---- MODULE Spec2Model ----
(***************************************************************************)
(* whatsapp_archive.py: a chat export (text lines) is turned into one HTML *)
(* document.  Strings are TLA+ strings (sequences of characters); the      *)
(* regular expressions, str.replace, str.split and str.strip are computed  *)
(* character by character.                                                 *)
(***************************************************************************)
EXTENDS Integers, Sequences, FiniteSets, TLC

VARIABLES
    pc,            \* position in main(), or "attach*" in the replace_attachment harness
    file,          \* fd.readlines(): the lines of the input file, line ends kept
    tmp,           \* main: the lines after replace_attachment
    li,            \* IdentifyMessages: number of lines the for loop has consumed
    messages,      \* IdentifyMessages: the list of finished messages
    msg_date,      \* IdentifyMessages: in-progress message (None is <<>>)
    msg_user,
    msg_body,
    err,           \* the exception that ended the run ("" for none)
    template_data, \* result of TemplateData
    HTML,          \* result of FormatHTML
    out_opened,    \* whether open(args.output_file, 'w') has run
    out_content,   \* what was written to the output file
    att_body,      \* harness: argument of replace_attachment
    att_once,      \* harness: replace_attachment(att_body)
    att_twice      \* harness: replace_attachment(replace_attachment(att_body))

vars == <<pc, file, tmp, li, messages, msg_date, msg_user, msg_body, err,
          template_data, HTML, out_opened, out_content,
          att_body, att_once, att_twice>>

mainVars == <<file, tmp, li, messages, msg_date, msg_user, msg_body, err,
              template_data, HTML, out_opened, out_content>>

attVars == <<att_body, att_once, att_twice>>

(***************************************************************************)
(* Bounds of the model.                                                    *)
(***************************************************************************)
MaxLines == 3     \* lines of an input file drawn from LineSet
MaxMsgs == 4      \* lines of an input file drawn from SenderLines
MaxFrags == 3     \* fragments a harness body is made of

(***************************************************************************)
(* Strings.                                                                *)
(***************************************************************************)
Ch(s, i) == SubSeq(s, i, i)

\* the element of a one-element set: {e(x) : x \in {d}} names the value d as x
The(S) == CHOOSE v \in S : TRUE

StartsAt(s, i, p) ==
    /\ i >= 1
    /\ i + Len(p) - 1 <= Len(s)
    /\ SubSeq(s, i, i + Len(p) - 1) = p

\* least index in lo..hi that satisfies P, 0 when there is none
First(lo, hi, P(_)) ==
    IF \E i \in lo..hi : P(i)
    THEN CHOOSE i \in lo..hi : P(i) /\ \A k \in lo..(i - 1) : ~P(k)
    ELSE 0

\* greatest index in lo..hi that satisfies P, 0 when there is none
Last(lo, hi, P(_)) ==
    IF \E i \in lo..hi : P(i)
    THEN CHOOSE i \in lo..hi : P(i) /\ \A k \in (i + 1)..hi : ~P(k)
    ELSE 0

\* least index >= from at which p occurs in s, 0 when there is none
Find(s, p, from) ==
    LET At(i) == StartsAt(s, i, p)
    IN  First(from, Len(s) - Len(p) + 1, At)

\* str.replace(old, new): every non-overlapping occurrence, left to right
RECURSIVE StrReplaceFrom(_, _, _, _)
StrReplaceFrom(s, old, new, from) ==
    LET i == Find(s, old, from)
    IN  IF i = 0 THEN SubSeq(s, from, Len(s))
        ELSE SubSeq(s, from, i - 1) \o new \o StrReplaceFrom(s, old, new, i + Len(old))

StrReplace(s, old, new) == StrReplaceFrom(s, old, new, 1)

\* file.split('.')[-1]: the text after the last '.', the whole text without one
SplitLast(s) ==
    LET Dot(i) == Ch(s, i) = "."
    IN  SubSeq(s, Last(1, Len(s), Dot) + 1, Len(s))

Whitespace == {" ", "\t", "\n"}

\* as str.rstrip(): trailing whitespace alone removed
StripTrailing(s) ==
    LET Ink(i) == Ch(s, i) \notin Whitespace
    IN  SubSeq(s, 1, Last(1, Len(s), Ink))

\* str.strip(): leading and trailing whitespace removed
Strip(s) ==
    LET Ink(i) == Ch(s, i) \notin Whitespace
    IN  IF First(1, Len(s), Ink) = 0 THEN ""
        ELSE SubSeq(s, First(1, Len(s), Ink), Last(1, Len(s), Ink))

(***************************************************************************)
(* replace_attachment                                                      *)
(***************************************************************************)
AttachOpen == "<attached: "

\* '(.+?)>' with the group starting at f: the index of the '>' that ends the
\* match, 0 when there is none.  '.' is any character but the newline, and
\* the reluctant group ends at the first '>' that leaves it one character.
FirstCloseFrom(s, f) ==
    LET Close(j) == Ch(s, j) = ">"
        Newline(j) == Ch(s, j) = "\n"
        j == First(f + 1, Len(s), Close)
    IN  IF j # 0 /\ First(f, j - 1, Newline) = 0 THEN j ELSE 0

\* re.search('(<attached: (.+?)>)', body): <<start, end>> of the leftmost match
\* (group 1); <<0, 0>> when nothing matches
RECURSIVE SearchAttachment(_, _)
SearchAttachment(body, from) ==
    LET i == Find(body, AttachOpen, from)
        j == FirstCloseFrom(body, i + Len(AttachOpen))
    IN  IF i = 0 THEN <<0, 0>>
        ELSE IF j # 0 THEN <<i, j>>
        ELSE SearchAttachment(body, i + 1)

ImageExts == {"jpg", "png", "jpeg"}

ImageExtsNoJpeg == {"jpg", "png"}

\* as Tag, with jpeg missing from the image extensions
TagNoJpeg(f) ==
    LET ext == SplitLast(f)
    IN  IF ext \in ImageExtsNoJpeg
        THEN "<a target=\"_blank\" href=\"" \o f \o "\"><img width=\"128\" height=\"128\" src=\""
             \o f \o "\" /></a><br>"
        ELSE IF ext \in {"opus"} THEN "<audio controls src=\"" \o f \o "\" /><br>"
        ELSE IF ext \in {"mp4"} THEN "<video controls src=\"" \o f \o "\" /><br>"
        ELSE "<a target=\"_blank\" href=\"" \o f \o "\" />" \o f \o "</a>"

\* lines 40-48: the tag chosen by the extension
Tag(f) ==
    LET ext == SplitLast(f)
    IN  IF ext \in ImageExts
        THEN "<a target=\"_blank\" href=\"" \o f \o "\"><img width=\"128\" height=\"128\" src=\""
             \o f \o "\" /></a><br>"
        ELSE IF ext \in {"opus"} THEN "<audio controls src=\"" \o f \o "\" /><br>"
        ELSE IF ext \in {"mp4"} THEN "<video controls src=\"" \o f \o "\" /><br>"
        ELSE "<a target=\"_blank\" href=\"" \o f \o "\" />" \o f \o "</a>"

replace_attachment(body) ==
    The({IF m[1] = 0 THEN body
         ELSE StrReplace(body, SubSeq(body, m[1], m[2]),
                         Tag(SubSeq(body, m[1] + Len(AttachOpen), m[2] - 1)))
         : m \in {SearchAttachment(body, 1)}})

(***************************************************************************)
(* The regular expressions WHATSAPP_RE and FIRSTLINE_RE, matched with      *)
(* re.match (anchored at the first character), in the backtracking order   *)
(* of the re module.                                                       *)
(***************************************************************************)
Digits == {"0", "1", "2", "3", "4", "5", "6", "7", "8", "9"}

DateChars == Digits \cup {"/", "-", "."}

TimeChars == Digits \cup {":"}

\* end of the longest run of characters of cs that starts at i (i - 1 when empty)
RunEnd(s, i, cs) ==
    LET Other(k) == Ch(s, k) \notin cs
        e == First(i, Len(s), Other)
    IN  IF e = 0 THEN Len(s) ELSE e - 1

NoMatch == [ok |-> FALSE, date |-> "", time |-> "", name |-> "", body |-> ""]

\* '(?P<body>.*$)' from position p: '.' stops at a newline and '$' matches at
\* the end of the string or before a newline that ends it
BodyMatches(s, p) ==
    LET n == Find(s, "\n", p)
    IN  n = 0 \/ n = Len(s)

BodyAt(s, p) ==
    IF Find(s, "\n", p) = 0 THEN SubSeq(s, p, Len(s)) ELSE SubSeq(s, p, Len(s) - 1)

\* NAME_RE ': ' body from position p: [^:]+? can only end at the first ':'
\* <<matched, name, body>>
NameAndBody(s, p) ==
    LET q == Find(s, ":", p)
    IN  IF q > p /\ StartsAt(s, q, ": ") /\ BodyMatches(s, q + 2)
        THEN <<TRUE, SubSeq(s, p, q - 1), BodyAt(s, q + 2)>>
        ELSE <<FALSE, "", "">>

\* what follows SEPARATOR_RE: name and body (WHATSAPP_RE) or the body alone
\* (FIRSTLINE_RE, reported with the empty name)
AfterSeparator(s, p, withName) ==
    IF withName THEN NameAndBody(s, p)
    ELSE IF BodyMatches(s, p) THEN <<TRUE, "", BodyAt(s, p)>>
    ELSE <<FALSE, "", "">>

Separators == <<" - ", ": ", " ">>

NoRest == <<FALSE, "", "">>

\* backtracking: the first alternative when it matched, the next one otherwise
OrElse(first, next) == The({IF r[1] THEN r ELSE next : r \in {first}})

\* SEPARATOR_RE '( - |: | )' at p: the alternatives in order, the first one
\* after which the rest of the pattern matches
RECURSIVE TrySeparators(_, _, _, _)
TrySeparators(s, p, withName, k) ==
    IF k > Len(Separators) THEN NoRest
    ELSE OrElse(IF StartsAt(s, p, Separators[k])
                THEN AfterSeparator(s, p + Len(Separators[k]), withName)
                ELSE NoRest,
                TrySeparators(s, p, withName, k + 1))

\* '\]?' at p, greedy: with the bracket first, then without
TryBracket(s, p, withName) ==
    OrElse(IF StartsAt(s, p, "]") THEN TrySeparators(s, p + 1, withName, 1) ELSE NoRest,
           TrySeparators(s, p, withName, 1))

\* a match of the rest, with the index at which the time group ended
EndingAt(rest, e) == The({<<r[1], r[2], r[3], e>> : r \in {rest}})

\* '( [AP]M)?' at p, greedy; <<matched, name, body, end of the time group>>
TryAmPm(s, p, withName) ==
    OrElse(IF StartsAt(s, p, " AM") \/ StartsAt(s, p, " PM")
           THEN EndingAt(TryBracket(s, p + 3, withName), p + 2)
           ELSE EndingAt(NoRest, 0),
           EndingAt(TryBracket(s, p, withName), p - 1))

\* '[\d:]+' from ts, greedy: the longest run first, then shorter ones
RECURSIVE TryTime(_, _, _, _)
TryTime(s, ts, te, withName) ==
    IF te < ts THEN EndingAt(NoRest, 0)
    ELSE OrElse(TryAmPm(s, te + 1, withName), TryTime(s, ts, te - 1, withName))

\* the groups of a match whose date is s[ds..de] and whose time starts at ts
MatchGroups(s, ds, de, ts, rest) ==
    The({IF r[1]
         THEN [ok |-> TRUE, date |-> SubSeq(s, ds, de), time |-> SubSeq(s, ts, r[4]),
               name |-> r[2], body |-> r[3]]
         ELSE NoMatch
         : r \in {rest}})

\* ',? ' after the date, then TIME_RE and the rest
MatchAfterDate(s, ds, de, ts, withName) ==
    IF de < ds \/ ts = 0 THEN NoMatch
    ELSE MatchGroups(s, ds, de, ts, TryTime(s, ts, RunEnd(s, ts, TimeChars), withName))

\* DATE_RE from ds.  The date is the longest run of date characters: what
\* follows it (',? ') starts with no date character.
MatchDate(s, ds, de, withName) ==
    MatchAfterDate(s, ds, de,
                   IF StartsAt(s, de + 1, ", ") THEN de + 3
                   ELSE IF StartsAt(s, de + 1, " ") THEN de + 2
                   ELSE 0,
                   withName)

MatchFrom(s, ds, withName) == MatchDate(s, ds, RunEnd(s, ds, DateChars), withName)

\* re.match(DATETIME_RE + SEPARATOR_RE + ..., line), '\[?' first
ReMatch(s, withName) == MatchFrom(s, IF StartsAt(s, 1, "[") THEN 2 ELSE 1, withName)

WHATSAPP_RE(line) == ReMatch(line, TRUE)

FIRSTLINE_RE(line) == ReMatch(line, FALSE)

(***************************************************************************)
(* dateutil.parser.parse(date + " " + time, dayfirst=True), for the dates  *)
(* and times the inputs below hold: three numbers of one or two digits     *)
(* with one separator, and H:MM or H:MM:SS with an optional AM or PM.      *)
(* The result is <<TRUE, <<year, month, day, hour, minute, second>>>>, or  *)
(* <<FALSE, <<>>>> when dateutil raises ParserError (a ValueError).        *)
(* A two-digit year is read in the century of the run (20yy).              *)
(***************************************************************************)
DigitVal(c) == CHOOSE d \in 0..9 : ToString(d) = c

RECURSIVE ToNumber(_)
ToNumber(s) ==
    IF Len(s) = 0 THEN 0
    ELSE 10 * ToNumber(SubSeq(s, 1, Len(s) - 1)) + DigitVal(Ch(s, Len(s)))

\* the pieces of s between the characters of seps
RECURSIVE SplitOn(_, _)
SplitOn(s, seps) ==
    LET e == RunEnd(s, 1, {Ch(s, i) : i \in 1..Len(s)} \ seps)
    IN  IF e >= Len(s) THEN <<s>>
        ELSE <<SubSeq(s, 1, e)>> \o SplitOn(SubSeq(s, e + 2, Len(s)), seps)

IsNumeral(s) == Len(s) \in {1, 2} /\ \A i \in 1..Len(s) : Ch(s, i) \in Digits

DaysInMonth(y, m) ==
    IF m = 2 THEN (IF y % 4 = 0 THEN 29 ELSE 28)
    ELSE IF m \in {4, 6, 9, 11} THEN 30
    ELSE 31

\* _ymd.resolve_ymd for three unlabelled numbers, dayfirst=True, yearfirst=False
ResolveYMD(a, b, c) ==
    IF a > 31 THEN (IF c <= 12 THEN <<a, c, b>> ELSE <<a, b, c>>)
    ELSE IF a > 12 \/ b <= 12 THEN <<c, b, a>>
    ELSE <<c, a, b>>

DateutilParse(date, time) ==
    LET ampm == IF Len(time) > 3 /\ SubSeq(time, Len(time) - 2, Len(time)) \in {" AM", " PM"}
                THEN SubSeq(time, Len(time) - 1, Len(time)) ELSE ""
        clock == IF ampm = "" THEN time ELSE SubSeq(time, 1, Len(time) - 3)
        dparts == SplitOn(date, {"/", "-", "."})
        tparts == SplitOn(clock, {":"})
        seps == {Ch(date, i) : i \in 1..Len(date)} \ Digits
        shaped == /\ Len(dparts) = 3 /\ Cardinality(seps) = 1
                  /\ Len(tparts) \in {2, 3}
                  /\ \A i \in 1..Len(dparts) : IsNumeral(dparts[i])
                  /\ \A i \in 1..Len(tparts) : IsNumeral(tparts[i])
        ymd == ResolveYMD(ToNumber(dparts[1]), ToNumber(dparts[2]), ToNumber(dparts[3]))
        year == 2000 + ymd[1]
        h == ToNumber(tparts[1])
        mi == ToNumber(tparts[2])
        sec == IF Len(tparts) = 3 THEN ToNumber(tparts[3]) ELSE 0
        hour == IF ampm = "PM" /\ h < 12 THEN h + 12
                ELSE IF ampm = "AM" /\ h = 12 THEN 0
                ELSE h
        valid == /\ ymd[2] \in 1..12
                 /\ ymd[3] \in 1..DaysInMonth(year, ymd[2])
                 /\ ampm # "" => h <= 12
                 /\ hour <= 23 /\ mi <= 59 /\ sec <= 59
    IN  IF shaped /\ valid THEN <<TRUE, <<year, ymd[2], ymd[3], hour, mi, sec>>>>
        ELSE <<FALSE, <<>>>>

(***************************************************************************)
(* ParseLine: "match" with (d, name, body), "none" (returns None), or      *)
(* "raise" when dateutil.parser.parse raises out of it.                    *)
(***************************************************************************)
ParseResult(m, name) ==
    The({IF d[1]
         THEN [kind |-> "match", d |-> d[2], name |-> name, body |-> replace_attachment(m.body)]
         ELSE [kind |-> "raise", d |-> <<>>, name |-> "", body |-> ""]
         : d \in {DateutilParse(m.date, m.time)}})

ParseEither(m, f) ==
    IF m.ok THEN ParseResult(m, m.name)
    ELSE IF f.ok THEN ParseResult(f, "nobody")
    ELSE [kind |-> "none", d |-> <<>>, name |-> "", body |-> ""]

ParseLine(line) ==
    The({ParseEither(m, f) : m \in {WHATSAPP_RE(line)}, f \in {FIRSTLINE_RE(line)}})

(***************************************************************************)
(* TemplateData and FormatHTML                                             *)
(***************************************************************************)
\* as GroupBy, with every message a run of its own
GroupBySingly(msgs) == [i \in 1..Len(msgs) |-> <<msgs[i][2], <<msgs[i]>>>>]

\* itertools.groupby(messages, lambda x: x[1]): the runs of equal senders
RECURSIVE GroupBy(_)
GroupBy(msgs) ==
    IF Len(msgs) = 0 THEN <<>>
    ELSE LET user == msgs[1][2]
             e == CHOOSE k \in 1..Len(msgs) :
                      /\ \A i \in 1..k : msgs[i][2] = user
                      /\ k = Len(msgs) \/ msgs[k + 1][2] # user
         IN  <<<<user, SubSeq(msgs, 1, e)>>>> \o GroupBy(SubSeq(msgs, e + 1, Len(msgs)))

\* as AssignIdx, with a sender seen again given the next index anew
RECURSIVE AssignIdxAlways(_, _, _, _)
AssignIdxAlways(groups, k, user_idx, idx) ==
    IF k > Len(groups) THEN user_idx
    ELSE AssignIdxAlways(groups, k + 1,
                         [u \in DOMAIN user_idx \cup {groups[k][1]} |->
                             IF u = groups[k][1] THEN idx ELSE user_idx[u]],
                         idx + 1)

\* lines 113-115 over the groups from the k-th on
RECURSIVE AssignIdx(_, _, _, _)
AssignIdx(groups, k, user_idx, idx) ==
    IF k > Len(groups) THEN user_idx
    ELSE IF groups[k][1] \in DOMAIN user_idx
         THEN AssignIdx(groups, k + 1, user_idx, idx)
         ELSE AssignIdx(groups, k + 1, user_idx @@ (groups[k][1] :> idx), idx + 1)

NoUsers == [u \in {} |-> 0]

TemplateData(msgs) ==
    [by_user |-> GroupBy(msgs), user_idx |-> AssignIdx(GroupBy(msgs), 1, NoUsers, 1)]

\* the style rules of the template: .u1 .u2 .u3 .u5 .u6 .u7
StyleClasses == {"u1", "u2", "u3", "u5", "u6", "u7"}

\* the template's loop: one chatbox per entry of by_user
FormatHTML(data) ==
    [styles |-> StyleClasses,
     chatboxes |->
        [g \in 1..Len(data.by_user) |->
            [class    |-> "u" \o ToString(data.user_idx[data.by_user[g][1]]),
             username |-> data.by_user[g][1],
             date     |-> data.by_user[g][2][1][1],
             divs     |-> [i \in 1..Len(data.by_user[g][2]) |-> data.by_user[g][2][i][3]]]]]

NoData == [by_user |-> <<>>, user_idx |-> NoUsers]

NoHTML == [styles |-> {}, chatboxes |-> <<>>]

(***************************************************************************)
(* The inputs.                                                             *)
(***************************************************************************)
SeqsUpTo(S, n) == UNION {[1..k -> S] : k \in 0..n}

LineSet ==
    {"1/2/20, 10:00 AM - Alice: Hello\n",
     "World\n",
     "  indented \n",
     "[3/2/20, 09:15:00] Bob: <attached: photo.jpg>\n",
     "1/1/20, 08:00 - Messages are encrypted\n",
     "99/99/99, 10:00 - Alice: hi\n",
     "random unparseable text\n"}

Senders == {"Ann", "Bob", "Cy", "Di"}

SenderLines == {"5/2/20, 12:00 - " \o u \o ": m\n" : u \in Senders}

(***************************************************************************)
(* main                                                                    *)
(***************************************************************************)
Init ==
    /\ pc = "start"
    /\ file \in SeqsUpTo(LineSet, MaxLines) \cup SeqsUpTo(SenderLines, MaxMsgs)
    /\ tmp = <<>>
    /\ li = 0
    /\ messages = <<>>
    /\ msg_date = <<>>
    /\ msg_user = ""
    /\ msg_body = ""
    /\ err = ""
    /\ template_data = NoData
    /\ HTML = NoHTML
    /\ out_opened = FALSE
    /\ out_content = NoHTML
    /\ att_body = ""
    /\ att_once = ""
    /\ att_twice = ""

\* lines 257-260, and the entry of IdentifyMessages (lines 78-81)
ReadInput ==
    /\ pc = "start"
    /\ tmp' = [i \in 1..Len(file) |-> replace_attachment(file[i])]
    /\ pc' = "identify"
    /\ UNCHANGED <<file, li, messages, msg_date, msg_user, msg_body, err,
                   template_data, HTML, out_opened, out_content, attVars>>

\* as StartMessage, with the finished message put first in the list
StartMessageFirst(m) ==
    /\ m.kind = "match"
    /\ messages' = IF msg_date # <<>>
                   THEN <<<<msg_date, msg_user, msg_body>>>> \o messages
                   ELSE messages
    /\ msg_date' = m.d
    /\ msg_user' = m.name
    /\ msg_body' = m.body

\* lines 84-90: the parsed line m starts a message
StartMessage(m) ==
    /\ m.kind = "match"
    /\ messages' = IF msg_date # <<>>
                   THEN Append(messages, <<msg_date, msg_user, msg_body>>)
                   ELSE messages
    /\ msg_date' = m.d
    /\ msg_user' = m.name
    /\ msg_body' = m.body

\* lines 83-90: the line starts a message
IdentifyNewMessage ==
    /\ pc = "identify"
    /\ li < Len(tmp)
    /\ \E m \in {ParseLine(tmp[li + 1])} : StartMessage(m)
    /\ li' = li + 1
    /\ UNCHANGED <<pc, file, tmp, err, template_data, HTML, out_opened, out_content, attVars>>

\* as IdentifyFormatError, with the unparseable first line passed over
IdentifyFormatErrorIgnored ==
    /\ pc = "identify"
    /\ li < Len(tmp)
    /\ ParseLine(tmp[li + 1]).kind = "none"
    /\ msg_date = <<>>
    /\ li' = li + 1
    /\ UNCHANGED <<pc, file, tmp, messages, msg_date, msg_user, msg_body, err,
                   template_data, HTML, out_opened, out_content, attVars>>

\* lines 92-95: no message is in progress and the line does not parse
IdentifyFormatError ==
    /\ pc = "identify"
    /\ li < Len(tmp)
    /\ ParseLine(tmp[li + 1]).kind = "none"
    /\ msg_date = <<>>
    /\ err' = "Error"
    /\ pc' = "aborted"
    /\ UNCHANGED <<file, tmp, li, messages, msg_date, msg_user, msg_body,
                   template_data, HTML, out_opened, out_content, attVars>>

\* as IdentifyContinuation, with the continuation line made a message of its own
IdentifyContinuationAsMessage ==
    /\ pc = "identify"
    /\ li < Len(tmp)
    /\ ParseLine(tmp[li + 1]).kind = "none"
    /\ msg_date # <<>>
    /\ messages' = Append(messages, <<msg_date, msg_user, msg_body>>)
    /\ msg_body' = Strip(tmp[li + 1])
    /\ li' = li + 1
    /\ UNCHANGED <<pc, file, tmp, msg_date, msg_user, err,
                   template_data, HTML, out_opened, out_content, attVars>>

\* line 96: a continuation line
IdentifyContinuation ==
    /\ pc = "identify"
    /\ li < Len(tmp)
    /\ ParseLine(tmp[li + 1]).kind = "none"
    /\ msg_date # <<>>
    /\ msg_body' = msg_body \o "\n" \o Strip(tmp[li + 1])
    /\ li' = li + 1
    /\ UNCHANGED <<pc, file, tmp, messages, msg_date, msg_user, err,
                   template_data, HTML, out_opened, out_content, attVars>>

\* line 83: dateutil raises inside ParseLine, nothing catches it
IdentifyParserError ==
    /\ pc = "identify"
    /\ li < Len(tmp)
    /\ ParseLine(tmp[li + 1]).kind = "raise"
    /\ err' = "ParserError"
    /\ pc' = "aborted"
    /\ UNCHANGED <<file, tmp, li, messages, msg_date, msg_user, msg_body,
                   template_data, HTML, out_opened, out_content, attVars>>

\* lines 97-100, back in main at line 262
IdentifyReturn ==
    /\ pc = "identify"
    /\ li = Len(tmp)
    /\ messages' = IF msg_date # <<>>
                   THEN Append(messages, <<msg_date, msg_user, msg_body>>)
                   ELSE messages
    /\ pc' = "template"
    /\ UNCHANGED <<file, tmp, li, msg_date, msg_user, msg_body, err,
                   template_data, HTML, out_opened, out_content, attVars>>

\* line 262
CallTemplateData ==
    /\ pc = "template"
    /\ template_data' = TemplateData(messages)
    /\ pc' = "format"
    /\ UNCHANGED <<file, tmp, li, messages, msg_date, msg_user, msg_body, err,
                   HTML, out_opened, out_content, attVars>>

\* line 263
CallFormatHTML ==
    /\ pc = "format"
    /\ HTML' = FormatHTML(template_data)
    /\ pc' = "write"
    /\ UNCHANGED <<file, tmp, li, messages, msg_date, msg_user, msg_body, err,
                   template_data, out_opened, out_content, attVars>>

\* lines 264-265
WriteOutput ==
    /\ pc = "write"
    /\ out_opened' = TRUE
    /\ out_content' = HTML
    /\ pc' = "done"
    /\ UNCHANGED <<file, tmp, li, messages, msg_date, msg_user, msg_body, err,
                   template_data, HTML, attVars>>

Next ==
    \/ ReadInput
    \/ IdentifyNewMessage
    \/ IdentifyFormatError
    \/ IdentifyContinuation
    \/ IdentifyParserError
    \/ IdentifyReturn
    \/ CallTemplateData
    \/ CallFormatHTML
    \/ WriteOutput

Spec == Init /\ [][Next]_vars

(***************************************************************************)
(* replace_attachment on its own: a body made of a few fragments, and the  *)
(* function applied to it once and then to its own result.                 *)
(***************************************************************************)
Fragments ==
    {"t ", ".",
     "<attached: a.jpg>", "<attached: b.mp4>", "<attached: c.opus>",
     "<attached: d.JPG>", "<attached: e.v.png>", "<attached: f.jpeg>",
     "<attached: g.pdf>", "<attached: ", ">"}

RECURSIVE Concat(_)
Concat(fs) == IF Len(fs) = 0 THEN "" ELSE Head(fs) \o Concat(Tail(fs))

InitAttach ==
    /\ pc = "attach"
    /\ att_body \in {Concat(fs) : fs \in SeqsUpTo(Fragments, MaxFrags)}
    /\ att_once = ""
    /\ att_twice = ""
    /\ file = <<>>
    /\ tmp = <<>>
    /\ li = 0
    /\ messages = <<>>
    /\ msg_date = <<>>
    /\ msg_user = ""
    /\ msg_body = ""
    /\ err = ""
    /\ template_data = NoData
    /\ HTML = NoHTML
    /\ out_opened = FALSE
    /\ out_content = NoHTML

AttachOnce ==
    /\ pc = "attach"
    /\ att_once' = replace_attachment(att_body)
    /\ pc' = "attached"
    /\ UNCHANGED <<att_body, att_twice, mainVars>>

AttachTwice ==
    /\ pc = "attached"
    /\ att_twice' = replace_attachment(att_once)
    /\ pc' = "attached twice"
    /\ UNCHANGED <<att_body, att_once, mainVars>>

NextAttach == AttachOnce \/ AttachTwice

SpecAttach == InitAttach /\ [][NextAttach]_vars

(***************************************************************************)
(* Properties of replace_attachment                                        *)
(***************************************************************************)
HasMarker(body) == SearchAttachment(body, 1)[1] # 0

\* C4: replace_attachment is idempotent: applied to its own result it changes
\* nothing, whatever markers the body holds; and a body without a marker is
\* returned unchanged.
C4_Idempotent ==
    /\ pc = "attached twice" => att_twice = att_once
    /\ pc = "attached" /\ ~HasMarker(att_body) => att_once = att_body

\* the tags, written out
Quoted(f) == "\"" \o f \o "\""

ImgTag(f) ==
    "<a target=\"_blank\" href=" \o Quoted(f) \o ">"
    \o "<img width=\"128\" height=\"128\" src=" \o Quoted(f) \o " />" \o "</a><br>"

AudioTag(f) == "<audio controls src=" \o Quoted(f) \o " /><br>"

VideoTag(f) == "<video controls src=" \o Quoted(f) \o " /><br>"

LinkTag(f) == "<a target=\"_blank\" href=" \o Quoted(f) \o " />" \o f \o "</a>"

\* the text after the last '.' of f (all of f when it has none)
Extension(f) ==
    IF \E i \in 1..Len(f) : Ch(f, i) = "."
    THEN The({SubSeq(f, i + 1, Len(f)) : i \in {k \in 1..Len(f) :
                 Ch(f, k) = "." /\ \A n \in (k + 1)..Len(f) : Ch(f, n) # "."}})
    ELSE f

ExpectedTag(f) ==
    IF Extension(f) \in {"jpg", "png", "jpeg"} THEN ImgTag(f)
    ELSE IF Extension(f) = "opus" THEN AudioTag(f)
    ELSE IF Extension(f) = "mp4" THEN VideoTag(f)
    ELSE LinkTag(f)

\* body with its first marker, at m = <<start, end>>, replaced by tag
MarkerReplaced(body, m, tag) ==
    SubSeq(body, 1, m[1] - 1) \o tag \o SubSeq(body, m[2] + 1, Len(body))

Matches(line) == WHATSAPP_RE(line).ok \/ FIRSTLINE_RE(line).ok

MatchCount(lines) == Cardinality({i \in 1..Len(lines) : Matches(lines[i])})

\* IdentifyMessages has just returned to main
Returned == pc = "template"

\* C1: when the first line matches neither pattern the run aborts with the
\* Error of IdentifyMessages and the output file is never opened or written;
\* the output file is opened only after IdentifyMessages, TemplateData and
\* FormatHTML have returned.
C1_NoPartialOutput ==
    /\ Len(tmp) > 0 /\ ~Matches(tmp[1]) =>
           /\ pc \in {"identify", "aborted"}
           /\ pc = "aborted" => err = "Error"
           /\ li = 0 /\ messages = <<>>
           /\ ~out_opened /\ out_content = NoHTML
    /\ out_opened =>
           /\ pc = "done" /\ err = "" /\ li = Len(tmp)
           /\ template_data = TemplateData(messages)
           /\ HTML = FormatHTML(template_data)
           /\ out_content = HTML

C1_Witness ==
    /\ pc = "aborted" /\ err = "Error" /\ ~out_opened
    /\ Len(file) = 3
    /\ file[1] = "random unparseable text\n"
    /\ Matches(file[2])

\* what IdentifyMessages has emitted to its caller once it has ended
Emitted == IF pc = "aborted" THEN <<>> ELSE messages

\* C2 as stated: for all inputs, those whose first line does not match
\* included, the number of Messages emitted equals the number of lines that
\* matched.  (Runs that dateutil ends are left aside here.)
C2_CountForAllInputs ==
    (Returned \/ (pc = "aborted" /\ err = "Error")) => Len(Emitted) = MatchCount(tmp)

\* C2, amended: on every input on which IdentifyMessages returns, the number
\* of Messages equals the number of lines that matched; and while it runs, the
\* finished messages plus the one in progress are the matched lines consumed.
C2_CountWhenReturned ==
    /\ Returned => Len(messages) = MatchCount(tmp)
    /\ pc = "identify" =>
           Len(messages) + (IF msg_date # <<>> THEN 1 ELSE 0) = MatchCount(SubSeq(tmp, 1, li))

C2_Witness ==
    /\ pc = "template"
    /\ Len(tmp) = 3 /\ Len(messages) = 2
    /\ ~Matches(tmp[2])

\* a step of the for loop that takes a continuation line
ContinuationStep ==
    /\ pc = "identify" /\ li < Len(tmp) /\ li' = li + 1
    /\ msg_date # <<>>
    /\ ~Matches(tmp[li + 1])

OnlyBodyChanges == msg_date' = msg_date /\ msg_user' = msg_user /\ messages' = messages

\* s without its trailing whitespace
TrailingTrimmed(s) ==
    The({SubSeq(s, 1, n) : n \in {k \in 0..Len(s) :
            /\ \A i \in (k + 1)..Len(s) : Ch(s, i) \in Whitespace
            /\ k > 0 => Ch(s, k) \notin Whitespace}})

\* C3 as stated: a continuation line appends "\n" and the line with only its
\* trailing whitespace removed, and changes nothing else of the message.
C3_TrailingOnly ==
    [][ContinuationStep =>
          /\ msg_body' = msg_body \o "\n" \o TrailingTrimmed(tmp[li + 1])
          /\ OnlyBodyChanges]_vars

\* t is s without its leading and trailing whitespace
IsTrimOf(t, s) ==
    /\ Len(t) > 0 => Ch(t, 1) \notin Whitespace /\ Ch(t, Len(t)) \notin Whitespace
    /\ \E a \in 0..Len(s) :
          /\ a + Len(t) <= Len(s)
          /\ SubSeq(s, a + 1, a + Len(t)) = t
          /\ \A i \in (1..a) \cup ((a + Len(t) + 1)..Len(s)) : Ch(s, i) \in Whitespace

\* C3, amended: a continuation line appends "\n" and the line with its
\* leading and its trailing whitespace removed, and changes nothing else of
\* the message.
C3_BothEndsTrimmed ==
    [][ContinuationStep =>
          /\ Len(msg_body') > Len(msg_body)
          /\ SubSeq(msg_body', 1, Len(msg_body) + 1) = msg_body \o "\n"
          /\ IsTrimOf(SubSeq(msg_body', Len(msg_body) + 2, Len(msg_body')), tmp[li + 1])
          /\ OnlyBodyChanges]_vars

C3_Witness ==
    /\ pc = "identify" /\ li = 2
    /\ tmp[2] = "  indented \n"
    /\ msg_body = "Hello\nindented"
    /\ msg_user = "Alice"

\* C5: ParseLine never raises; the only error that ends the parsing is the
\* Error that IdentifyMessages raises for an unparseable first line.
C5_ParseLineNeverRaises ==
    /\ err \in {"", "Error"}
    /\ \A i \in 1..Len(tmp) : ParseLine(tmp[i]).kind \in {"match", "none"}

\* TemplateData has just returned to main
Grouped == pc = "format"

\* the runs of by_user, one after the other
RECURSIVE Flatten(_)
Flatten(runs) == IF Len(runs) = 0 THEN <<>> ELSE Head(runs)[2] \o Flatten(Tail(runs))

\* C6: TemplateData partitions the messages into maximal runs of one sender:
\* the runs in order give back the message sequence, every run is non-empty
\* and holds messages of its own sender only, and adjacent runs differ in sender.
C6_LosslessRuns ==
    Grouped =>
        \A runs \in {template_data.by_user} :
            /\ Flatten(runs) = messages
            /\ \A g \in 1..Len(runs) :
                  /\ Len(runs[g][2]) > 0
                  /\ \A i \in 1..Len(runs[g][2]) : runs[g][2][i][2] = runs[g][1]
            /\ \A g \in 1..(Len(runs) - 1) : runs[g][1] # runs[g + 1][1]

\* Alice, Alice, Bob: two runs, of two messages and of one
C6_Witness ==
    /\ Grouped
    /\ Len(template_data.by_user) = 2
    /\ template_data.by_user[1][1] = "Alice" /\ Len(template_data.by_user[1][2]) = 2
    /\ template_data.by_user[2][1] = "Bob" /\ Len(template_data.by_user[2][2]) = 1

SendersOf(msgs) == {msgs[i][2] : i \in 1..Len(msgs)}

\* position of the first message of sender u
FirstSeen(msgs, u) ==
    The({i \in 1..Len(msgs) : msgs[i][2] = u /\ \A k \in 1..(i - 1) : msgs[k][2] # u})

\* C7: the N-th distinct sender in file order has index N: the indices map
\* the senders present one-to-one onto 1..k, in the order of first appearance,
\* so a sender that appears again keeps its index.
C7_IndexByFirstAppearance ==
    Grouped =>
        \A idx \in {template_data.user_idx} :
        \A us \in {SendersOf(messages)} :
            /\ DOMAIN idx = us
            /\ \A u \in us :
                  idx[u] = Cardinality({v \in us : FirstSeen(messages, v) <= FirstSeen(messages, u)})

\* Ann, Bob, Ann again, Cy: Ann keeps 1 and Cy is the third
C7_Witness ==
    /\ Grouped
    /\ Len(messages) = 4
    /\ messages[1][2] = "Ann" /\ messages[2][2] = "Bob"
    /\ messages[3][2] = "Ann" /\ messages[4][2] = "Cy"
    /\ template_data.user_idx["Ann"] = 1
    /\ template_data.user_idx["Cy"] = 3

\* the indices in lines of the lines that match, in order
MatchedAt(lines) ==
    LET M == {i \in 1..Len(lines) : Matches(lines[i])}
    IN  [k \in 1..Cardinality(M) |->
            The({i \in M : Cardinality({j \in M : j <= i}) = k})]

\* the continuation lines lines[from..to], each after a newline and trimmed
RECURSIVE Continuations(_, _, _)
Continuations(lines, from, to) ==
    IF from > to THEN ""
    ELSE "\n" \o Strip(lines[from]) \o Continuations(lines, from + 1, to)

\* C8: file order is kept: the k-th Message has the timestamp and the sender
\* of the k-th matched line, and its body is that line's body followed by the
\* continuation lines up to the next matched line, in order; the Messages are
\* not sorted by timestamp.
C8_FileOrder ==
    Returned =>
        \A at \in {MatchedAt(tmp)} :
            /\ Len(messages) = Len(at)
            /\ \A k \in 1..Len(at) :
               \A m \in {ParseLine(tmp[at[k]])} :
                  /\ messages[k][1] = m.d
                  /\ messages[k][2] = m.name
                  /\ messages[k][3] = m.body \o
                        Continuations(tmp, at[k] + 1,
                                      IF k < Len(at) THEN at[k + 1] - 1 ELSE Len(tmp))

\* timestamps <<year, month, day, hour, minute, second>> in calendar order
RECURSIVE Earlier(_, _)
Earlier(a, b) ==
    /\ Len(a) > 0
    /\ \/ a[1] < b[1]
       \/ a[1] = b[1] /\ Earlier(Tail(a), Tail(b))

\* a message, its continuation line, then a message with an earlier timestamp
C8_Witness ==
    /\ Returned
    /\ Len(messages) = 2 /\ Len(tmp) = 3
    /\ messages[1][3] = "Hello\nWorld"
    /\ Earlier(messages[2][1], messages[1][1])

\* the sender index of a chatbox
IndexOf(box) == template_data.user_idx[box.username]

\* C10: the chatbox of a run is styled by its sender index modulo the six
\* style variants: every index in 1..6 selects a variant that the stylesheet
\* defines, and indices congruent modulo 6 select the same variant.
C10_PaletteOfSix ==
    pc = "done" =>
        \A boxes \in {out_content.chatboxes} :
            /\ Cardinality(out_content.styles) = 6
            /\ \A g \in 1..Len(boxes) :
                  IndexOf(boxes[g]) \in 1..6 => boxes[g].class \in out_content.styles
            /\ \A g, h \in 1..Len(boxes) :
                  IndexOf(boxes[g]) % 6 = IndexOf(boxes[h]) % 6
                      => boxes[g].class = boxes[h].class

====
